---- MODULE Spec2Model ----
(***************************************************************************)
(* Model of the tourism dashboard:                                         *)
(*   update_map        (src/application/__init__.py, POI map search)       *)
(*   run_image_search  (src/application/__init__.py, image search)         *)
(*   search_similar_images (src/application/utils/image_search.py)         *)
(*   the offline builders of the image index                               *)
(*   update_attraction_cards and the member callbacks and routes           *)
(*     (favorites, cart, itineraries; __init__.py and routes.py)           *)
(* together with calculate_distance and the pandas / math library calls    *)
(* they make.  Each part has its own specification (Spec, SpecImage,       *)
(* SpecSearch, SpecBuild, SpecRequests, SpecConcurrent, SpecMember,        *)
(* SpecCart, SpecSchedule, SpecFavorites, SpecRegister, SpecPages) over    *)
(* the one list of variables.  The categories of the member callbacks are  *)
(* written "Attraction", "Event", "Hotel", "Restaurant"; a missing form    *)
(* field of register is written "None".                                    *)
(* Floats are modelled in fixed point (angles in whole                     *)
(* degrees, trigonometric values scaled by 1000, distances in whole km);   *)
(* the non-finite floats NaN and +-inf are modelled explicitly.            *)
(* Messages of the user interface are written as ASCII tags:               *)
(*   "PickCategory" = the 'please choose a category' message,              *)
(*   "NoData"       = the 'no data' message,                               *)
(*   "NoMatch"      = the 'no matching data' message,                      *)
(*   "Shown"        = the 'showing N records' message.                     *)
(***************************************************************************)
EXTENDS Integers, Sequences, FiniteSets, TLC

VARIABLES
    attraction_df,   \* the four POI tables, loaded once at import time
    hotel_df,
    restaurant_df,
    event_df,
    req,             \* State/Input values of the pending update_map call
    pc,              \* "call" before update_map has run, "done" after
    out,             \* what update_map produced
    feature_db,      \* content of attraction_image_index.npy, or "missing"
    upload,          \* image-search-upload contents
    view_mode,       \* dcc.Store attraction-view-mode
    image_results,   \* dcc.Store image-search-results
    banner,          \* image-search-banner children and style
    result_attraction, \* result-attraction children: ids of the cards shown
    modal_open,      \* modal-image-search is_open
    search_calls,    \* calls of search_similar_images by the last run_image_search
    error_reports,   \* error banners produced by the last run_image_search
    query,           \* arguments of a direct search_similar_images call
    search_out,      \* what that call produced, and the steps it took
    ref_images,      \* the reference images an offline index builder reads
    build_out,       \* how the last run of an index builder ended
    favorites,       \* table favorites: rows in primary-key order
    cart_items,      \* table cart_items: rows in primary-key order
    itineraries,     \* table itineraries: a set of rows
    itinerary_details, \* table itinerary_details: a set of rows
    next_itinerary_id, \* next value of the itineraries id sequence
    next_detail_id,  \* next value of the itinerary_details id sequence
    login_warning,   \* login-warning-dialog displayed
    cards_out,       \* the attraction list: cards, label-total-att, the values of
                     \* input-page-att (page) and planner-att-city (city)
    geo_thread,      \* an update_map request in progress: position and locals
    img_thread,      \* a run_image_search request in progress: position and locals
    add_thread,      \* add_to_cart_global requests in progress, one per worker
    reg_thread,      \* register requests in progress, one per worker
    users,           \* table users: rows in primary-key order
    reply            \* what the last toggle_favorite or register returned

geoVars == <<attraction_df, hotel_df, restaurant_df, event_df, req, pc, out>>
imgVars == <<feature_db, upload, view_mode, image_results, banner, result_attraction,
             modal_open, search_calls, error_reports>>
searchVars == <<query, search_out>>
buildVars == <<ref_images, build_out>>
dbVars == <<favorites, cart_items, itineraries, itinerary_details, next_itinerary_id,
           next_detail_id, users>>
memberVars == <<dbVars, login_warning, cards_out, reply>>
threadVars == <<geo_thread, img_thread, add_thread, reg_thread>>
extVars == <<searchVars, buildVars, memberVars, threadVars>>
vars == <<geoVars, imgVars, extVars>>

-----------------------------------------------------------------------------
(* Bounds of the model *)

MaxRows == 2          \* rows of attraction_df
MaxHotelRows == 1     \* rows of hotel_df
MaxIndex == 2         \* entries of the image index
MaxSearchIndex == 3   \* entries of the index of a direct search_similar_images call
MaxK == 3             \* largest top_k of a direct search_similar_images call
MaxFactor == 3        \* largest constant a stored vector is multiplied by
MaxRefImages == 2     \* reference images an index builder reads
MaxDetails == 2       \* itinerary details ever created
MaxListed == 2        \* items of one save_all_schedule request of the schedule pages
MaxUsers == 4         \* rows of the table users
MaxItems == 1         \* items of one save_all_schedule request

-----------------------------------------------------------------------------
(* Floats.  A float is [k, v]: k = "num" (finite, value v), "nan", "inf"    *)
(* or "ninf".                                                               *)

Num(n) == [k |-> "num", v |-> n]
NaN == [k |-> "nan", v |-> 0]
PInf == [k |-> "inf", v |-> 0]
NInf == [k |-> "ninf", v |-> 0]

IsFinite(f) == f.k = "num"
IsInfinite(f) == f.k \in {"inf", "ninf"}

\* IEEE subtraction a - b
FSub(a, b) ==
    IF a.k = "nan" \/ b.k = "nan" THEN NaN
    ELSE IF a.k = "num" /\ b.k = "num" THEN Num(a.v - b.v)
    ELSE IF a.k = "num" THEN (IF b.k = "inf" THEN NInf ELSE PInf)
    ELSE IF b.k = "num" THEN a
    ELSE IF a.k = b.k THEN NaN
    ELSE a

\* Raw cell values of the Lat / Lon columns as the loaders leave them:
\* a JSON number, a numeric string, a missing value, a non-numeric string,
\* or a non-finite number.
RawNum(n) == [k |-> "number", v |-> n]
RawNumStr(n) == [k |-> "numstr", v |-> n]
RawNone == [k |-> "none", v |-> 0]
RawText == [k |-> "text", v |-> 0]
RawInf == [k |-> "infinity", v |-> 0]

\* pd.to_numeric(cell, errors='coerce')
to_numeric(c) ==
    CASE c.k = "number" -> Num(c.v)
      [] c.k = "numstr" -> Num(c.v)
      [] c.k = "infinity" -> PInf
      [] OTHER -> NaN

\* pandas isna: only NaN / None are missing, +-inf is a value
isna(f) == f.k = "nan"

-----------------------------------------------------------------------------
(* math.sin / math.cos / math.sqrt / math.atan2 in fixed point *)

Scale == 1000

\* 1000 * sin(d degrees) for d in 0, 15, ... 90
SinTable(d) ==
    CASE d = 0 -> 0
      [] d = 15 -> 259
      [] d = 30 -> 500
      [] d = 45 -> 707
      [] d = 60 -> 866
      [] d = 75 -> 966
      [] d = 90 -> 1000

\* 1000 * sin(d degrees), d any multiple of 15
SinDeg(d) ==
    LET m == d % 360
    IN  IF m <= 90 THEN SinTable(m)
        ELSE IF m <= 180 THEN SinTable(180 - m)
        ELSE IF m <= 270 THEN 0 - SinTable(m - 180)
        ELSE 0 - SinTable(360 - m)

CosDeg(d) == SinDeg(d + 90)

RECURSIVE SqrtBetween(_, _, _)
\* the largest r in lo..hi with r * r <= n (binary search)
SqrtBetween(n, lo, hi) ==
    IF lo >= hi THEN lo
    ELSE LET mid == (lo + hi + 1) \div 2
         IN  IF mid * mid <= n THEN SqrtBetween(n, mid, hi)
             ELSE SqrtBetween(n, lo, mid - 1)

\* floor of the square root of n >= 0
ISqrt(n) == SqrtBetween(n, 0, 46340)

\* 1000 * atan(t / 1000) for 0 <= t <= 1000
AtanUnit(t) == (t * (785 + (273 * (Scale - t)) \div Scale)) \div Scale

HalfPi == 1571

\* 1000 * math.atan2(y, x) for x, y >= 0
Atan2(y, x) ==
    IF y = 0 THEN 0
    ELSE IF y <= x THEN AtanUnit((y * Scale) \div x)
    ELSE HalfPi - AtanUnit((x * Scale) \div y)

-----------------------------------------------------------------------------
(* calculate_distance *)

R == 6371

DistErr == [k |-> "err", v |-> 0]

\* the haversine term a, scaled by 10^6, for finite arguments in degrees
HavA(lat1, lon1, lat2, lon2) ==
    LET dlat == lat2 - lat1
        dlon == lon2 - lon1
        s1 == SinDeg(dlat \div 2)
        s2 == SinDeg(dlon \div 2)
    IN  s1 * s1 + (((CosDeg(lat1) * CosDeg(lat2)) \div Scale) * (s2 * s2)) \div Scale

\* calculate_distance(lat1, lon1, lat2, lon2) on floats: a finite number of
\* km, NaN, or DistErr when math.sin / math.cos raise ValueError on an
\* infinite argument.
calculate_distance(lat1, lon1, lat2, lon2) ==
    LET dlat == FSub(lat2, lat1)
        dlon == FSub(lon2, lon1)
    IN  IF IsInfinite(dlat) \/ IsInfinite(lat1) \/ IsInfinite(lat2) \/ IsInfinite(dlon)
        THEN DistErr
        ELSE IF dlat.k = "nan" \/ lat1.k = "nan" \/ lat2.k = "nan" \/ dlon.k = "nan"
        THEN NaN
        ELSE LET a == HavA(lat1.v, lon1.v, lat2.v, lon2.v)
                 c == 2 * Atan2(ISqrt(a), ISqrt(Scale * Scale - a))
             IN  Num((R * c) \div Scale)

-----------------------------------------------------------------------------
(* Strings.  A string is a sequence of one-character strings; a cell of a  *)
(* name column is a string or the missing value.                           *)

Str(s) == [na |-> FALSE, s |-> s]
NameNaN == [na |-> TRUE, s |-> <<>>]

\* str.lower on one character (re.IGNORECASE compares case-folded)
LowerChar(ch) ==
    CASE ch = "A" -> "a"
      [] ch = "B" -> "b"
      [] ch = "C" -> "c"
      [] OTHER -> ch

\* re.compile(pat) raises re.error: an opening parenthesis that is never
\* closed ("missing ), unterminated subpattern")
RegexInvalid(pat) ==
    LET opens == Cardinality({i \in 1..Len(pat) : pat[i] = "("})
        closes == Cardinality({i \in 1..Len(pat) : pat[i] = ")"})
    IN  opens # closes

\* one pattern element against one character under re.IGNORECASE:
\* "." matches any character, any other element is a literal
ElemMatches(p, ch) == p = "." \/ LowerChar(p) = LowerChar(ch)

\* re.compile(pat, re.IGNORECASE).search(s) is not None, for a valid pattern
\* made of literals and "."
RegexSearch(pat, s) ==
    \E off \in 0..(Len(s) - Len(pat)) :
        \A i \in 1..Len(pat) : ElemMatches(pat[i], s[off + i])

\* Series.str.contains(key, case=False, na=False) on one cell (regex=True is
\* the pandas default); only called with a pattern that compiles
str_contains(name, key) ==
    IF name.na THEN FALSE ELSE RegexSearch(key, name.s)

-----------------------------------------------------------------------------
(* update_map *)

\* ID=df[...ID].astype(str)
astype_str(id) == <<"str", id>>

NoDist == [k |-> "absent", v |-> 0]

\* df.assign(Type=..., Name=df[...Name], ID=df[...ID].astype(str)) on one row
AssignRow(row, type) ==
    [Type |-> type, Name |-> row.name, ID |-> astype_str(row.id),
     Lat |-> row.Lat, Lon |-> row.Lon, City |-> row.City, Dist |-> NoDist]

AssignTable(df, type) == [i \in 1..Len(df) |-> AssignRow(df[i], type)]

\* dfs, then pd.concat(dfs, ignore_index=True): the selected tables in the
\* fixed order attractions, hotels, restaurants, events
ConcatSelected(cats) ==
    (IF "attractions" \in cats THEN AssignTable(attraction_df, "Attraction") ELSE <<>>)
    \o (IF "hotels" \in cats THEN AssignTable(hotel_df, "Hotel") ELSE <<>>)
    \o (IF "restaurants" \in cats THEN AssignTable(restaurant_df, "Restaurant") ELSE <<>>)
    \o (IF "events" \in cats THEN AssignTable(event_df, "Event") ELSE <<>>)

KnownCats == {"attractions", "hotels", "restaurants", "events"}

\* full_df['Lat'] = pd.to_numeric(..., errors='coerce'), same for 'Lon'
CoerceRow(row) == [row EXCEPT !.Lat = to_numeric(row.Lat), !.Lon = to_numeric(row.Lon)]

CoerceTable(df) == [i \in 1..Len(df) |-> CoerceRow(df[i])]

HasCoords(row) == ~isna(row.Lat) /\ ~isna(row.Lon)

\* full_df.dropna(subset=['Lat', 'Lon'])
dropna(df) == SelectSeq(df, HasCoords)

\* the frame update_map searches: concat, to_numeric, dropna
FullDf(cats) == dropna(CoerceTable(ConcatSelected(cats)))

\* full_df[full_df['Name'].str.contains(key, case=False, na=False)]
Target(full_df, key) == SelectSeq(full_df, LAMBDA row : str_contains(row.Name, key))

\* full_df['Dist'] = full_df.apply(lambda x: calculate_distance(...), axis=1)
WithDist(full_df, center_lat, center_lon) ==
    [i \in 1..Len(full_df) |->
        [full_df[i] EXCEPT !.Dist =
            calculate_distance(center_lat, center_lon, full_df[i].Lat, full_df[i].Lon)]]

\* the comparison Dist <= rad of a float column with a number: NaN compares False
LeqRad(d, rad) == d.k = "num" /\ d.v <= rad

\* the radius filter left out
WithinRadiusUnfiltered(df, rad) == df

\* the radius filter followed by a descending ordering of the frame
WithinRadiusReversed(df, rad) ==
    LET kept == SelectSeq(df, LAMBDA row : LeqRad(row.Dist, rad))
    IN  [i \in 1..Len(kept) |-> kept[Len(kept) + 1 - i]]

\* full_df[full_df['Dist'] <= rad]
WithinRadius(df, rad) == SelectSeq(df, LAMBDA row : LeqRad(row.Dist, rad))

\* full_df[full_df['PostalAddress.City'] == city]
InCity(df, city) == SelectSeq(df, LAMBDA row : row.City = city)

RECURSIVE SumV(_, _)
SumV(fs, i) == IF i = 0 THEN 0 ELSE fs[i].v + SumV(fs, i - 1)

\* Series.mean() of a non-empty float column without NaN
FMean(fs) ==
    IF \E i \in 1..Len(fs) : fs[i].k = "inf" THEN PInf
    ELSE Num(SumV(fs, Len(fs)) \div Len(fs))

\* what a callback that returns normally hands back to Dash
Returned(fig, msg, rows, clat, clon, zoom) ==
    [status |-> "returned", exc |-> "none", fig |-> fig, msg |-> msg,
     count |-> Len(rows), rows |-> rows,
     center_lat |-> clat, center_lon |-> clon, zoom |-> zoom]

\* a callback that ends with an uncaught exception
Raised(exc) ==
    [status |-> "raised", exc |-> exc, fig |-> "none", msg |-> "none",
     count |-> 0, rows |-> <<>>,
     center_lat |-> NaN, center_lon |-> NaN, zoom |-> 0]

NotRun ==
    [status |-> "pending", exc |-> "none", fig |-> "none", msg |-> "none",
     count |-> 0, rows |-> <<>>,
     center_lat |-> NaN, center_lon |-> NaN, zoom |-> 0]

\* the tail of update_map: the default map when final_df is empty, the
\* scatter map of final_df otherwise
Finish(final_df, clat, clon, zoom) ==
    IF final_df = <<>> THEN Returned("default", "NoMatch", <<>>, NaN, NaN, 0)
    ELSE Returned("scatter", "Shown", final_df, clat, clon, zoom)

\* mode == 'city' and city
CityBranch(full_df, city) ==
    LET final_df == InCity(full_df, city)
    IN  IF final_df = <<>> THEN Finish(final_df, NaN, NaN, 0)
        ELSE Finish(final_df,
                    FMean([i \in 1..Len(final_df) |-> final_df[i].Lat]),
                    FMean([i \in 1..Len(final_df) |-> final_df[i].Lon]),
                    10)

\* mode == 'keyword' and key
KeywordBranch(full_df, key, rad) ==
    IF RegexInvalid(key) THEN Raised("re.error")
    ELSE LET target == Target(full_df, key)
         IN  IF target = <<>> THEN Finish(<<>>, NaN, NaN, 0)
             ELSE LET t == target[1]
                      dist_df == WithDist(full_df, t.Lat, t.Lon)
                  IN  IF \E i \in 1..Len(dist_df) : dist_df[i].Dist = DistErr
                      THEN Raised("ValueError")
                      ELSE Finish(WithinRadius(dist_df, rad), t.Lat, t.Lon,
                                  IF rad <= 5 THEN 13 ELSE 11)

\* the value of update_map(btn1, btn2, mode, city, key, rad, cats)
UpdateMapResult(mode, city, key, rad, cats) ==
    IF cats = {} THEN Returned("default", "PickCategory", <<>>, NaN, NaN, 0)
    ELSE IF cats \cap KnownCats = {} THEN Returned("default", "NoData", <<>>, NaN, NaN, 0)
    ELSE LET full_df == FullDf(cats)
         IN  IF mode = "city" /\ city # "None" THEN CityBranch(full_df, city)
             ELSE IF mode = "keyword" /\ key # <<>> THEN KeywordBranch(full_df, key, rad)
             ELSE Finish(<<>>, NaN, NaN, 0)

\* the Dash callback update_map on the pending request
update_map ==
    /\ pc = "call"
    /\ out' = UpdateMapResult(req.mode, req.city, req.key, req.rad, req.cats)
    /\ pc' = "done"
    /\ UNCHANGED <<attraction_df, hotel_df, restaurant_df, event_df, req, imgVars, extVars>>

-----------------------------------------------------------------------------
(* search_similar_images.  The ResNet-50 feature of an image is an input:  *)
(* an image is modelled by its feature vector, a pair of integers.         *)

\* 1000 * np.linalg.norm(v)
Norm(v) == ISqrt((v[1] * v[1] + v[2] * v[2]) * Scale * Scale)

\* v / np.linalg.norm(v), components scaled by 1000
Normalize(v) == <<(v[1] * Scale * Scale) \div Norm(v), (v[2] * Scale * Scale) \div Norm(v)>>

\* np.dot of two vectors scaled by 1000, scaled by 1000
Dot(a, b) == (a[1] * b[1] + a[2] * b[2]) \div Scale

\* a loop that compares the stored vectors as they are stored
ScoresStoredRaw(input_feature, items) ==
    [i \in 1..Len(items) |->
        [index |-> items[i].id,
         score |-> Dot(Normalize(input_feature), [j \in 1..2 |-> items[i].vec[j] * Scale])]]

\* a loop that compares the query feature as the network produced it
ScoresQueryRaw(input_feature, items) ==
    [i \in 1..Len(items) |->
        [index |-> items[i].id,
         score |-> Dot([j \in 1..2 |-> input_feature[j] * Scale], Normalize(items[i].vec))]]

\* the loop over feature_db.items(): one {"index", "score"} entry per index
\* entry, in index iteration order
Scores(input_feature, items) ==
    [i \in 1..Len(items) |->
        [index |-> items[i].id,
         score |-> Dot(Normalize(input_feature), Normalize(items[i].vec))]]

RECURSIVE InsertDescUnstable(_, _)
\* an insertion that puts x in front of the entries of equal score
InsertDescUnstable(x, s) ==
    IF s = <<>> THEN <<x>>
    ELSE IF Head(s).score > x.score THEN <<Head(s)>> \o InsertDescUnstable(x, Tail(s))
    ELSE <<x>> \o s

RECURSIVE InsertDesc(_, _)
\* x placed behind every entry of the descending sequence s whose score is
\* not smaller than its own
InsertDesc(x, s) ==
    IF s = <<>> THEN <<x>>
    ELSE IF Head(s).score >= x.score THEN <<Head(s)>> \o InsertDesc(x, Tail(s))
    ELSE <<x>> \o s

RECURSIVE SortDesc(_, _)
\* results.sort(key=lambda x: x["score"], reverse=True): stable
SortDesc(s, n) == IF n = 0 THEN <<>> ELSE InsertDesc(s[n], SortDesc(s, n - 1))

\* a slice that keeps every entry
TakeAll(s, k) == s

\* results[:top_k]
Take(s, k) == SubSeq(s, 1, IF k < Len(s) THEN k ELSE Len(s))

\* search_similar_images(input_img, index_path, top_k) with a loaded index
search_similar_images(input_feature, items, top_k) ==
    LET results == Scores(input_feature, items)
    IN  Take(SortDesc(results, Len(results)), top_k)

\* no direct call has been made
NotSearched == [status |-> "notrun", results |-> <<>>, loads |-> 0, extracts |-> 0]


NoSearchCall == query = [feat |-> <<0, 0>>, top_k |-> 0] /\ search_out = NotSearched

\* a function that extracts the query feature before it loads the index
LoadFailedAfterExtract == [status |-> "raised", results |-> <<>>, loads |-> 1, extracts |-> 1]

\* np.load raises: the exception leaves the function before preprocess and
\* model(batch_t) have run
LoadFailed == [status |-> "raised", results |-> <<>>, loads |-> 1, extracts |-> 0]

\* one call search_similar_images(input_img, index_path, top_k) by any
\* caller; the function returns after one np.load and one feature extraction
SearchSimilarImagesCall ==
    /\ search_out.status = "notrun"
    /\ search_out' = IF ~feature_db.ok THEN LoadFailed
                     ELSE [status |-> "returned", loads |-> 1, extracts |-> 1,
                           results |-> search_similar_images(query.feat, feature_db.items,
                                                             query.top_k)]
    /\ UNCHANGED <<geoVars, imgVars, query, buildVars, memberVars, threadVars>>

-----------------------------------------------------------------------------
(* The offline index builders.  A reference image is [id, feat, ok]: its   *)
(* identifier, its ResNet-50 feature, and whether the image can be         *)
(* obtained and opened.  In this section a feature component c stands for  *)
(* the float c / Unit.                                                     *)

Unit == 5

\* feat / np.linalg.norm(feat), in the representation of this section
NormalizeStored(v) ==
    <<(v[1] * Unit * Scale) \div Norm(v), (v[2] * Unit * Scale) \div Norm(v)>>

\* feature_db[attr_id] = vec on a dict held in insertion order
DictPut(items, id, vec) ==
    IF \E p \in 1..Len(items) : items[p].id = id
    THEN [p \in 1..Len(items) |->
              IF items[p].id = id THEN [id |-> id, vec |-> vec] ELSE items[p]]
    ELSE Append(items, [id |-> id, vec |-> vec])

RECURSIVE GenerateNpyIndexDict(_, _)
\* the loop of generate_npy_index over the first n image files: the feature
\* is stored as the network produced it; a file that fails is skipped
GenerateNpyIndexDict(imgs, n) ==
    IF n = 0 THEN <<>>
    ELSE LET d == GenerateNpyIndexDict(imgs, n - 1)
         IN  IF ~imgs[n].ok THEN d ELSE DictPut(d, imgs[n].id, imgs[n].feat)

RECURSIVE RunAllDict(_, _)
\* the loop of run_all over the first n attractions: the feature is divided
\* by its norm; an attraction whose image fails is skipped
RunAllDict(imgs, n) ==
    IF n = 0 THEN <<>>
    ELSE LET d == RunAllDict(imgs, n - 1)
         IN  IF ~imgs[n].ok THEN d
             ELSE DictPut(d, imgs[n].id, NormalizeStored(imgs[n].feat))

\* generate_npy_index(image_folder, output_path): np.save of the dict
generate_npy_index ==
    /\ build_out = "notrun"
    /\ feature_db' = [ok |-> TRUE, items |-> GenerateNpyIndexDict(ref_images, Len(ref_images))]
    /\ build_out' = "generate_npy_index"
    /\ UNCHANGED <<geoVars, upload, view_mode, image_results, banner, result_attraction,
                   modal_open, search_calls, error_reports, searchVars, ref_images,
                   memberVars, threadVars>>

\* run_all(): np.save of the dict
run_all ==
    /\ build_out = "notrun"
    /\ feature_db' = [ok |-> TRUE, items |-> RunAllDict(ref_images, Len(ref_images))]
    /\ build_out' = "run_all"
    /\ UNCHANGED <<geoVars, upload, view_mode, image_results, banner, result_attraction,
                   modal_open, search_calls, error_reports, searchVars, ref_images,
                   memberVars, threadVars>>

\* build_attraction_image_index(attraction_df, save_path): its module imports
\* load_image_from_url and encode_image from image_search, which defines
\* neither, so the import raises and the function body (which would save a
\* dict with the two keys "vectors" and "meta") never runs
build_attraction_image_index ==
    /\ build_out = "notrun"
    /\ build_out' = "ImportError"
    /\ UNCHANGED <<geoVars, imgVars, searchVars, ref_images, memberVars, threadVars>>

-----------------------------------------------------------------------------
(* run_image_search and the callbacks around it *)

TopK == 20

NoneResults == [none |-> TRUE, ids |-> <<>>]
Ids(s) == [none |-> FALSE, ids |-> s]

NoUpload == [kind |-> "None", feat |-> <<0, 0>>]

\* contents.split(','), base64.b64decode and Image.open(...).convert("RGB")
\* succeed
Decodes(contents) == contents.kind = "image"

AttractionIDs == {attraction_df[i].id : i \in 1..Len(attraction_df)}

\* [r["index"] for r in results if r["index"] in attraction_df['AttractionID'].values]
ValidIds(results) ==
    LET kept == SelectSeq(results, LAMBDA r : r.index \in AttractionIDs)
    IN  [i \in 1..Len(kept) |-> kept[i].index]

RECURSIVE CardsFor(_, _)
\* df_p sorted by the order of valid_ids: the ids of the cards generated
CardsFor(valid_ids, n) ==
    IF n = 0 THEN <<>>
    ELSE CardsFor(valid_ids, n - 1)
         \o [i \in 1..Cardinality({j \in 1..Len(attraction_df) : attraction_df[j].id = valid_ids[n]})
                |-> valid_ids[n]]

\* an except branch that resets the view mode as the empty-result branch does
ErrorOutcomeResetsMode(called) ==
    /\ banner' = [text |-> "SearchError", style |-> "red"]
    /\ image_results' = NoneResults
    /\ modal_open' = FALSE
    /\ search_calls' = called
    /\ error_reports' = 1
    /\ view_mode' = "default"
    /\ UNCHANGED result_attraction

\* the except branch: one error banner, no result ids
ErrorOutcome(called) ==
    /\ banner' = [text |-> "SearchError", style |-> "red"]
    /\ image_results' = NoneResults
    /\ modal_open' = FALSE
    /\ search_calls' = called
    /\ error_reports' = 1
    /\ UNCHANGED <<result_attraction, view_mode>>

\* the Dash callback run_image_search(n, contents) on a click
run_image_search ==
    /\ IF upload.kind = "None"
       THEN \* raise PreventUpdate
            /\ search_calls' = 0
            /\ error_reports' = 0
            /\ UNCHANGED <<view_mode, image_results, banner, result_attraction, modal_open>>
       ELSE IF ~Decodes(upload) THEN ErrorOutcome(0)
       ELSE IF ~feature_db.ok THEN ErrorOutcome(1)
       ELSE LET results == search_similar_images(upload.feat, feature_db.items, TopK)
                valid_ids == ValidIds(results)
            IN  IF valid_ids = <<>>
                THEN /\ view_mode' = "default"
                     /\ banner' = [text |-> "EmptyResult", style |-> "block"]
                     /\ image_results' = NoneResults
                     /\ modal_open' = FALSE
                     /\ search_calls' = 1
                     /\ error_reports' = 0
                     /\ UNCHANGED result_attraction
                ELSE /\ result_attraction' = CardsFor(valid_ids, Len(valid_ids))
                     /\ view_mode' = "image"
                     /\ banner' = [text |-> "ImageResults", style |-> "block"]
                     /\ image_results' = Ids(valid_ids)
                     /\ modal_open' = FALSE
                     /\ search_calls' = 1
                     /\ error_reports' = 0
    /\ UNCHANGED <<geoVars, feature_db, upload, extVars>>

\* the browser puts a file into image-search-upload
set_upload(contents) ==
    /\ upload' = contents
    /\ UNCHANGED <<geoVars, feature_db, view_mode, image_results, banner,
                   result_attraction, modal_open, search_calls, error_reports, extVars>>

\* the Dash callback back_to_normal_logic(n) on a click
back_to_normal_logic ==
    /\ view_mode' = "default"
    /\ image_results' = NoneResults
    /\ banner' = [banner EXCEPT !.style = "hidden"]
    /\ upload' = NoUpload
    \* Output("input-page-att", "value") is 1
    /\ cards_out' = [cards_out EXCEPT !.page = 1]
    /\ UNCHANGED <<geoVars, feature_db, result_attraction, modal_open, search_calls,
                   error_reports, searchVars, buildVars, dbVars, login_warning, reply,
                   threadVars>>

\* the Dash callback toggle_image_search_modal on the open or close button
toggle_image_search_modal ==
    /\ modal_open' = ~modal_open
    /\ UNCHANGED <<geoVars, feature_db, upload, view_mode, image_results, banner,
                   result_attraction, search_calls, error_reports, extVars>>

-----------------------------------------------------------------------------
(* The sessions and the database.  A request is made by a session u: the   *)
(* id of the logged-in user, or Anonymous.                                 *)

Anonymous == 0

Users == {1, 2}

Sessions == Users \cup {Anonymous}

\* a current_user that passes every login check
AlwaysAuthenticated(u) == TRUE

\* current_user.is_authenticated
IsAuthenticated(u) == u # Anonymous

\* current_user.id: the anonymous user of Flask-Login has no attribute id,
\* and reading it raises AttributeError
HasId(u) == u # Anonymous

\* get_data_by_id(target_id, category), and the same lookup in
\* toggle_favorite: the rows of the category's table whose identifier reads
\* as target_id; the function returns the first of them, or None when there
\* is none
get_data_by_id(item_id, category) ==
    LET t == CASE category = "Attraction" -> attraction_df
               [] category = "Event" -> event_df
               [] category = "Hotel" -> hotel_df
               [] category = "Restaurant" -> restaurant_df
               [] OTHER -> <<>>
    IN  SelectSeq(t, LAMBDA row : astype_str(row.id) = astype_str(item_id))

\* the rows of a favorites or cart_items query filter_by(user_id, item_id)
RowsOf(table, u, item_id) ==
    {p \in 1..Len(table) : table[p].user_id = u /\ table[p].item_id = item_id}

\* Favorite(...) and CartItem(...) of a row found in its table: name and
\* location are copied from the row
UserItem(u, item_id, category) ==
    LET row == get_data_by_id(item_id, category)[1]
    IN  [user_id |-> u, item_id |-> item_id, category |-> category, name |-> row.name,
         location |-> row.City]

\* a toggle_favorite that adds the Favorite and never deletes one
ToggleFavoriteOnlyAdds(favs, u, item_id, category) ==
    IF get_data_by_id(item_id, category) # <<>>
    THEN Append(favs, UserItem(u, item_id, category))
    ELSE favs

\* the try block of toggle_favorite on the table favs, for a session with an
\* id: the first Favorite of the user for the item is deleted, or one is
\* added when the item resolves in the table of its category
ToggleFavorite(favs, u, item_id, category) ==
    LET exists == RowsOf(favs, u, item_id)
        \* .first(): the row with the lowest primary key
        first == CHOOSE p \in exists : \A q \in exists : p <= q
    IN  IF exists # {}
        THEN \* db.session.delete(exists)
             [i \in 1..(Len(favs) - 1) |-> IF i < first THEN favs[i] ELSE favs[i + 1]]
        ELSE IF get_data_by_id(item_id, category) # <<>>
        THEN Append(favs, UserItem(u, item_id, category))
        ELSE favs

\* the Dash callback toggle_favorite on a click by session u; the page
\* shows a button per attraction and a button 9 of an attraction that is no
\* longer in the table; the callback returns the buttons to colour red
toggle_favorite(u, item_id, category) ==
    /\ IF ~IsAuthenticated(u) \/ ~HasId(u) THEN UNCHANGED <<favorites, reply>>
       ELSE /\ favorites' = ToggleFavorite(favorites, u, item_id, category)
            /\ LET buttons == {attraction_df[i].id : i \in 1..Len(attraction_df)} \cup {9}
                   current_fav_ids ==
                       {favorites'[i].item_id :
                           i \in {j \in 1..Len(favorites') : favorites'[j].user_id = u}}
               IN  reply' = [route |-> "toggle_favorite", u |-> u,
                             red |-> {b \in buttons : b \in current_fav_ids}]
    /\ UNCHANGED <<geoVars, imgVars, searchVars, buildVars, cart_items, itineraries,
                   itinerary_details, next_itinerary_id, users, next_detail_id, login_warning,
                   cards_out, threadVars>>

\* the Dash callback add_to_cart_global; real is FALSE when no button has
\* been clicked (the firing at page load)
add_to_cart_global(u, real, item_id, category) ==
    /\ IF ~real \/ ~IsAuthenticated(u) \/ ~HasId(u) THEN UNCHANGED cart_items
       ELSE IF RowsOf(cart_items, u, item_id) = {} /\ get_data_by_id(item_id, category) # <<>>
       THEN cart_items' = Append(cart_items, UserItem(u, item_id, category))
       ELSE UNCHANGED cart_items
    /\ UNCHANGED <<geoVars, imgVars, searchVars, buildVars, favorites, itineraries,
                   itinerary_details, next_itinerary_id, users, next_detail_id, login_warning,
                   cards_out, reply,
                   threadVars>>

\* first step of add_to_cart_global by worker t for a click of an
\* authenticated user: CartItem.query.filter_by(user_id, item_id).first()
add_to_cart_query(t, u, item_id, category) ==
    /\ add_thread[t].pc = "idle"
    /\ IsAuthenticated(u) /\ HasId(u)
    /\ add_thread' = [add_thread EXCEPT ![t] =
           [pc |-> "queried", u |-> u, item_id |-> item_id, category |-> category,
            exists |-> RowsOf(cart_items, u, item_id) # {}]]
    /\ UNCHANGED <<geoVars, imgVars, searchVars, buildVars, memberVars, geo_thread, img_thread,
                   reg_thread>>

\* second step of worker t: when the query found no row and the item
\* resolves, db.session.add(CartItem(...)) and db.session.commit(); the
\* table has no unique constraint on (user_id, item_id), so the insert is
\* accepted whatever other workers have committed since the query
add_to_cart_commit(t) ==
    LET a == add_thread[t]
    IN  /\ a.pc = "queried"
        /\ cart_items' = IF ~a.exists /\ get_data_by_id(a.item_id, a.category) # <<>>
                          THEN Append(cart_items, UserItem(a.u, a.item_id, a.category))
                          ELSE cart_items
        /\ add_thread' = [add_thread EXCEPT ![t] =
               [pc |-> "idle", u |-> Anonymous, item_id |-> 0, category |-> "none",
                exists |-> FALSE]]
        /\ UNCHANGED <<geoVars, imgVars, searchVars, buildVars, favorites, itineraries,
                       itinerary_details, next_itinerary_id, users, next_detail_id, login_warning,
                       cards_out, reply, geo_thread, img_thread, reg_thread>>

\* first step of a POST to register by worker t: the form is read and
\* User.query.filter_by(email=email).first() runs; a row found sends the
\* client back to /register. A missing form field is "None".
register_query(t, username, email, password) ==
    /\ reg_thread[t].pc = "idle"
    /\ IF \E i \in 1..Len(users) : users[i].email = email
       THEN /\ reply' = [route |-> "register", status |-> 302, location |-> "/register"]
            /\ UNCHANGED reg_thread
       ELSE /\ reg_thread' = [reg_thread EXCEPT ![t] =
                   [pc |-> "queried", username |-> username, email |-> email,
                    password |-> password]]
            /\ UNCHANGED reply
    /\ UNCHANGED <<geoVars, imgVars, searchVars, buildVars, dbVars, login_warning, cards_out,
                   geo_thread, img_thread, add_thread>>

\* a register whose table users accepts a second row with an email
RegisterCommitNoUnique(t) ==
    LET f == reg_thread[t]
    IN  /\ f.pc = "queried"
        /\ Len(users) < MaxUsers
        /\ users' = Append(users, [id |-> Len(users) + 1, username |-> f.username,
                                    email |-> f.email])
        /\ reply' = [route |-> "register", status |-> 302, location |-> "/login"]
        /\ reg_thread' = [reg_thread EXCEPT ![t] =
               [pc |-> "idle", username |-> "None", email |-> "None", password |-> "None"]]
        /\ UNCHANGED <<geoVars, imgVars, searchVars, buildVars, favorites, cart_items,
                       itineraries, itinerary_details, next_itinerary_id, next_detail_id,
                       login_warning, cards_out, geo_thread, img_thread, add_thread>>

\* second step of worker t: generate_password_hash raises on a missing
\* password; the commit of the new User raises IntegrityError on a NULL
\* username or email and on a username or an email another row has (both
\* columns are unique), whatever the query saw; nothing catches either, so
\* the response is 500 and the session is discarded
register_commit(t) ==
    LET f == reg_thread[t]
        accepted == /\ f.password # "None"
                    /\ f.username # "None" /\ f.email # "None"
                    /\ \A i \in 1..Len(users) :
                          users[i].username # f.username /\ users[i].email # f.email
    IN  /\ f.pc = "queried"
        /\ accepted => Len(users) < MaxUsers
        /\ users' = IF accepted
                     THEN Append(users, [id |-> Len(users) + 1, username |-> f.username,
                                         email |-> f.email])
                     ELSE users
        /\ reply' = IF accepted
                     THEN [route |-> "register", status |-> 302, location |-> "/login"]
                     ELSE [route |-> "register", status |-> 500, location |-> "none"]
        /\ reg_thread' = [reg_thread EXCEPT ![t] =
               [pc |-> "idle", username |-> "None", email |-> "None", password |-> "None"]]
        /\ UNCHANGED <<geoVars, imgVars, searchVars, buildVars, favorites, cart_items,
                       itineraries, itinerary_details, next_itinerary_id, next_detail_id,
                       login_warning, cards_out, geo_thread, img_thread, add_thread>>

\* what add_to_itinerary returns to the dialog's property displayed
ShowLoginWarning(u, real) == real /\ ~IsAuthenticated(u)

\* the Dash callback add_to_itinerary, fired by the same buttons
add_to_itinerary(u, real) ==
    /\ login_warning' = ShowLoginWarning(u, real)
    /\ UNCHANGED <<geoVars, imgVars, searchVars, buildVars, dbVars, cards_out, reply, threadVars>>

\* the Dash callback delete_cart_item: the query runs inside the try, so a
\* user without id ends in the rollback
delete_cart_item(u, real, item_id) ==
    /\ IF ~real \/ ~HasId(u) THEN UNCHANGED cart_items
       ELSE cart_items' = SelectSeq(cart_items,
                              LAMBDA r : ~(r.user_id = u /\ r.item_id = item_id))
    /\ UNCHANGED <<geoVars, imgVars, searchVars, buildVars, favorites, itineraries,
                   itinerary_details, next_itinerary_id, users, next_detail_id, login_warning,
                   cards_out, reply,
                   threadVars>>

\* a save_to_plan that commits the new details and leaves the basket as it is
SaveToPlanKeepsCart(u, plan_id) ==
    LET items == SelectSeq(cart_items, LAMBDA r : r.user_id = u)
        n == Len(items)
    IN  IF plan_id # 0 /\ HasId(u) /\ n > 0 /\ (\E p \in itineraries : p.id = plan_id)
           THEN /\ next_detail_id + n - 1 <= MaxDetails
                /\ itinerary_details' = itinerary_details \cup
                      {[id |-> next_detail_id + i - 1, itinerary_id |-> plan_id,
                        item_id |-> items[i].item_id, name |-> items[i].name,
                        category |-> items[i].category, location |-> items[i].location,
                        day_number |-> 0, sort_order |-> 0, start_time |-> "None",
                        end_time |-> "None"] : i \in 1..n}
                /\ next_detail_id' = next_detail_id + n
                /\ UNCHANGED <<geoVars, imgVars, searchVars, buildVars, favorites, cart_items,
                               itineraries, next_itinerary_id, users, login_warning, cards_out,
                               reply,
                               threadVars>>
           ELSE UNCHANGED vars

\* the Dash callback save_to_plan on a click; plan_id 0 is no plan chosen.
\* The commit fails on the foreign key when no itinerary has the id, and the
\* except clause rolls back
save_to_plan(u, plan_id) ==
    LET items == SelectSeq(cart_items, LAMBDA r : r.user_id = u)
        n == Len(items)
        fk == \E p \in itineraries : p.id = plan_id
        \* ItineraryDetail(itinerary_id=plan_id, item_id=i.item_id, ...,
        \* day_number=0, sort_order=0); the times are NULL
        NewDetail(id, i) ==
            [id |-> id, itinerary_id |-> plan_id, item_id |-> i.item_id, name |-> i.name,
             category |-> i.category, location |-> i.location, day_number |-> 0,
             sort_order |-> 0,
             start_time |-> "None", end_time |-> "None"]
    IN  IF plan_id # 0 /\ HasId(u) /\ n > 0 /\ fk
           THEN /\ next_detail_id + n - 1 <= MaxDetails
                /\ itinerary_details' = itinerary_details \cup
                      {NewDetail(next_detail_id + i - 1, items[i]) : i \in 1..n}
                /\ cart_items' = SelectSeq(cart_items, LAMBDA r : r.user_id # u)
                /\ next_detail_id' = next_detail_id + n
                /\ UNCHANGED <<geoVars, imgVars, searchVars, buildVars, favorites, itineraries,
                               next_itinerary_id, users, login_warning, cards_out, reply,
                               threadVars>>
           ELSE UNCHANGED vars

\* detail.itinerary.user_id == current_user.id
OwnedDetail(u, d) == \E p \in itineraries : p.id = d.itinerary_id /\ p.user_id = u

\* one turn of the loop of save_all_schedule raises; int(x) returns when x
\* is a number or a string of digits
ItemRaises(u, item) ==
    LET IntOk(c) == c.k \in {"number", "numstr"}
    IN  \/ ~IntOk(item.id)
        \/ /\ \E d \in itinerary_details : d.id = item.id.v /\ OwnedDetail(u, d)
           /\ ~IntOk(item.day_number) \/ ~IntOk(item.sort_order)

RECURSIVE UpdateDetails(_, _, _)
\* the loop of save_all_schedule over the first n items
UpdateDetails(u, items, n) ==
    IF n = 0 THEN itinerary_details
    ELSE LET item == items[n]
         IN  { IF d.id = item.id.v /\ OwnedDetail(u, d)
               THEN [d EXCEPT !.day_number = item.day_number.v,
                              !.sort_order = item.sort_order.v,
                              !.start_time = item.start_time, !.end_time = item.end_time]
               ELSE d : d \in UpdateDetails(u, items, n - 1) }

\* a save_all_schedule that keeps what the loop did before the exception
SaveAllKeepsPartial(u, items) ==
    LET raising == {i \in 1..Len(items) : ItemRaises(u, items[i])}
        k == CHOOSE i \in raising : \A j \in raising : i <= j
    IN  IF ~IsAuthenticated(u) THEN [details |-> itinerary_details, status |-> "login"]
        ELSE IF raising = {}
        THEN [details |-> UpdateDetails(u, items, Len(items)), status |-> "success"]
        ELSE [details |-> UpdateDetails(u, items, k - 1), status |-> "error500"]

\* what the route save_all_schedule answers and the table it leaves:
\* login_required sends an anonymous session to the login page; an exception
\* in the loop rolls the whole request back and answers with status 500
SaveAllSchedule(u, items) ==
    IF ~IsAuthenticated(u) THEN [details |-> itinerary_details, status |-> "login"]
    ELSE IF \A i \in 1..Len(items) : ~ItemRaises(u, items[i])
    THEN [details |-> UpdateDetails(u, items, Len(items)), status |-> "success"]
    ELSE [details |-> itinerary_details, status |-> "error500"]

\* the route save_all_schedule
save_all_schedule(u, items) ==
    /\ itinerary_details' = SaveAllSchedule(u, items).details
    /\ UNCHANGED <<geoVars, imgVars, searchVars, buildVars, favorites, cart_items, itineraries,
                   next_itinerary_id, users, next_detail_id, login_warning, cards_out, reply,
                   threadVars>>

\* Itinerary.query.filter_by(id=itinerary_id, user_id=current_user.id)
OwnPlans(u, itinerary_id) == {p \in itineraries : p.id = itinerary_id /\ p.user_id = u}

\* the route rename_itinerary (login_required, first_or_404)
rename_itinerary(u, itinerary_id, title) ==
    \* data.get('title', '').strip() on the titles of the model
    /\ LET new_title == CASE title = " B" -> "B" [] title = " " -> "" [] OTHER -> title
       IN  IF IsAuthenticated(u) /\ OwnPlans(u, itinerary_id) # {} /\ new_title # ""
           THEN itineraries' = {IF p \in OwnPlans(u, itinerary_id)
                                THEN [p EXCEPT !.title = new_title] ELSE p : p \in itineraries}
           ELSE UNCHANGED itineraries
    /\ UNCHANGED <<geoVars, imgVars, searchVars, buildVars, favorites, cart_items,
                   itinerary_details, next_itinerary_id, users, next_detail_id, login_warning,
                   cards_out, reply,
                   threadVars>>

\* a delete_itinerary without the cascade to the details
DeleteItineraryKeepsDetails(u, itinerary_id) ==
    /\ IF IsAuthenticated(u) /\ OwnPlans(u, itinerary_id) # {}
       THEN itineraries' = itineraries \ OwnPlans(u, itinerary_id)
       ELSE UNCHANGED itineraries
    /\ UNCHANGED <<geoVars, imgVars, searchVars, buildVars, favorites, cart_items,
                   itinerary_details, next_itinerary_id, users, next_detail_id, login_warning,
                   cards_out, reply, threadVars>>

\* the route delete_itinerary (login_required, first_or_404); the details go
\* with the plan (cascade="all, delete-orphan")
delete_itinerary(u, itinerary_id) ==
    /\ IF IsAuthenticated(u) /\ OwnPlans(u, itinerary_id) # {}
       THEN /\ itineraries' = itineraries \ OwnPlans(u, itinerary_id)
            /\ itinerary_details' = {d \in itinerary_details : d.itinerary_id # itinerary_id}
       ELSE UNCHANGED <<itineraries, itinerary_details>>
    /\ UNCHANGED <<geoVars, imgVars, searchVars, buildVars, favorites, cart_items,
                   next_itinerary_id, users, next_detail_id, login_warning, cards_out, reply,
                   threadVars>>

\* the route delete_itinerary_detail (login_required, join on the owner,
\* first_or_404)
delete_itinerary_detail(u, detail_id) ==
    /\ IF IsAuthenticated(u)
       THEN itinerary_details' =
                {d \in itinerary_details : ~(d.id = detail_id /\ OwnedDetail(u, d))}
       ELSE UNCHANGED itinerary_details
    /\ UNCHANGED <<geoVars, imgVars, searchVars, buildVars, favorites, cart_items, itineraries,
                   next_itinerary_id, users, next_detail_id, login_warning, cards_out, reply,
                   threadVars>>

-----------------------------------------------------------------------------
(* update_attraction_cards *)

PerPage == 15

\* a preprocessing that drops the rows without a value instead of filling them
PreprocessDropna(df) ==
    SelectSeq(df, LAMBDA row :
        "IsAccessibleForFree" \in DOMAIN row => row.IsAccessibleForFree # "NaN")

\* preprocess_attraction_df(df): fillna(False).astype(bool) of the column,
\* assigned on df itself
preprocess_attraction_df(df) ==
    [i \in 1..Len(df) |->
        IF "IsAccessibleForFree" \in DOMAIN df[i]
        THEN [df[i] EXCEPT !.IsAccessibleForFree = IF @ = "NaN" THEN "False" ELSE @]
        ELSE df[i]]

RECURSIVE ImageRows(_, _)
\* attraction_df[AttractionID.isin(image_results)] sorted by the order of
\* image_results
ImageRows(ids, n) ==
    IF n = 0 THEN <<>>
    ELSE ImageRows(ids, n - 1)
         \o SelectSeq(attraction_df, LAMBDA row : row.id = ids[n])

\* curr, from the component that triggered the callback; page_input or 1,
\* None being 0
CurrPage(trigger, page_input, pages) ==
    LET OrOne == IF page_input = 0 THEN 1 ELSE page_input
        MaxOf(a, b) == IF a > b THEN a ELSE b
        MinOf(a, b) == IF a < b THEN a ELSE b
    IN  CASE trigger = "btn-prev-att" -> MaxOf(1, OrOne - 1)
          [] trigger = "btn-next-att" -> MinOf(pages, OrOne + 1)
          [] trigger = "input-page-att" -> MaxOf(1, MinOf(pages, OrOne))
          [] OTHER -> 1

\* the list as the layout creates it: input-page-att has value 1
NoCards == [cards |-> <<>>, pages |-> 0, page |-> 1, text |-> "none", city |-> "None"]

\* the Dash callback update_attraction_cards; city "None" is no selection
update_attraction_cards(city, trigger, page_input) ==
    LET image == view_mode = "image" /\ ~image_results.none /\ image_results.ids # <<>>
        base == IF image THEN ImageRows(image_results.ids, Len(image_results.ids))
                ELSE preprocess_attraction_df(attraction_df)
        df == IF city # "None" THEN SelectSeq(base, LAMBDA row : row.City = city) ELSE base
        \* math.ceil(len(df) / per_page) or 1
        pages == IF Len(df) = 0 THEN 1 ELSE (Len(df) + PerPage - 1) \div PerPage
        curr == CurrPage(trigger, page_input, pages)
        \* df.iloc[a : b]; SliceBound is the bound a Python slice makes of an index
        SliceBound(i) == IF i < 0 THEN (IF i + Len(df) > 0 THEN i + Len(df) ELSE 0)
                         ELSE (IF i < Len(df) THEN i ELSE Len(df))
        df_p == SubSeq(df, SliceBound((curr - 1) * PerPage) + 1, SliceBound(curr * PerPage))
    IN  \* preprocess_attraction_df is handed the module global itself
        /\ attraction_df' = IF image THEN attraction_df
                            ELSE preprocess_attraction_df(attraction_df)
        /\ cards_out' = IF df = <<>>
                        THEN [cards |-> <<>>, pages |-> 1, page |-> 1, text |-> "NoMatch",
                              city |-> city]
                        ELSE [cards |-> [i \in 1..Len(df_p) |-> df_p[i].id],
                              pages |-> pages, page |-> curr, text |-> "cards", city |-> city]
        /\ UNCHANGED <<hotel_df, restaurant_df, event_df, req, pc, out, imgVars, searchVars,
                       buildVars, dbVars, login_warning, reply, threadVars>>

-----------------------------------------------------------------------------
(* Concurrent requests.  The server handles requests in threads; a search  *)
(* is modelled statement by statement, one step for every statement that   *)
(* reads a module global or the index file, its locals held in the thread. *)

NoThreads ==
    /\ geo_thread = [pc |-> "start", at |-> 0, dfs |-> <<>>, result |-> NotRun]
    /\ reg_thread = [t \in {1, 2} |-> [pc |-> "idle", username |-> "None", email |-> "None",
                                       password |-> "None"]]
    /\ add_thread = [t \in {1, 2} |-> [pc |-> "idle", u |-> Anonymous, item_id |-> 0,
                                       category |-> "none", exists |-> FALSE]]
    /\ img_thread = [pc |-> "start", items |-> <<>>, valid_ids |-> <<>>, result |-> "none",
                     cards |-> <<>>]

\* update_map after its reads: from pd.concat(dfs) to the return
UpdateMapFrom(dfs, mode, city, key, rad, cats) ==
    IF cats \cap KnownCats = {} THEN Returned("default", "NoData", <<>>, NaN, NaN, 0)
    ELSE LET full_df == dropna(CoerceTable(dfs))
         IN  IF mode = "city" /\ city # "None" THEN CityBranch(full_df, city)
             ELSE IF mode = "keyword" /\ key # <<>> THEN KeywordBranch(full_df, key, rad)
             ELSE Finish(<<>>, NaN, NaN, 0)

\* update_map up to its first if statement
geo_start ==
    /\ geo_thread.pc = "start"
    /\ geo_thread' = IF req.cats = {}
                     THEN [geo_thread EXCEPT !.pc = "done",
                             !.result = Returned("default", "PickCategory", <<>>, NaN, NaN, 0)]
                     ELSE [geo_thread EXCEPT !.pc = "read", !.at = 1]
    /\ UNCHANGED <<geoVars, imgVars, searchVars, buildVars, memberVars, img_thread, add_thread,
                   reg_thread>>

\* one of the four statements if '...' in cats: dfs.append(table.assign(...))
geo_read ==
    /\ geo_thread.pc = "read"
    /\ LET \* the order of the four statements
           ReadOrder == <<"attractions", "hotels", "restaurants", "events">>
           cat == ReadOrder[geo_thread.at]
           \* df.assign(Type=..., Name=..., ID=...) on the module global
           frame == CASE cat = "attractions" -> AssignTable(attraction_df, "Attraction")
                      [] cat = "hotels" -> AssignTable(hotel_df, "Hotel")
                      [] cat = "restaurants" -> AssignTable(restaurant_df, "Restaurant")
                      [] cat = "events" -> AssignTable(event_df, "Event")
           dfs == IF cat \in req.cats THEN geo_thread.dfs \o frame ELSE geo_thread.dfs
       IN  geo_thread' = [geo_thread EXCEPT !.dfs = dfs,
                            !.at = IF @ = Len(ReadOrder) THEN 0 ELSE @ + 1,
                            !.pc = IF geo_thread.at = Len(ReadOrder) THEN "compute" ELSE "read"]
    /\ UNCHANGED <<geoVars, imgVars, searchVars, buildVars, memberVars, img_thread, add_thread,
                   reg_thread>>

\* the rest of update_map, on its local frames
geo_compute ==
    /\ geo_thread.pc = "compute"
    /\ geo_thread' = [geo_thread EXCEPT !.pc = "done",
                        !.result = UpdateMapFrom(geo_thread.dfs, req.mode, req.city, req.key,
                                                 req.rad, req.cats)]
    /\ UNCHANGED <<geoVars, imgVars, searchVars, buildVars, memberVars, img_thread, add_thread,
                   reg_thread>>

\* run_image_search up to the call of search_similar_images
img_start ==
    /\ img_thread.pc = "start"
    /\ img_thread' = IF upload.kind = "None"
                     THEN [img_thread EXCEPT !.pc = "done", !.result = "PreventUpdate"]
                     ELSE IF ~Decodes(upload)
                     THEN [img_thread EXCEPT !.pc = "done", !.result = "SearchError"]
                     ELSE [img_thread EXCEPT !.pc = "load"]
    /\ UNCHANGED <<geoVars, imgVars, searchVars, buildVars, memberVars, geo_thread, add_thread,
                   reg_thread>>

\* search_similar_images: np.load reads the index file, the rest works on
\* the loaded dict
img_load ==
    /\ img_thread.pc = "load"
    /\ img_thread' = IF ~feature_db.ok
                     THEN [img_thread EXCEPT !.pc = "done", !.result = "SearchError"]
                     ELSE [img_thread EXCEPT !.pc = "ids", !.items = feature_db.items]
    /\ UNCHANGED <<geoVars, imgVars, searchVars, buildVars, memberVars, geo_thread, add_thread,
                   reg_thread>>

\* valid_ids: the search result filtered by attraction_df['AttractionID']
img_ids ==
    /\ img_thread.pc = "ids"
    /\ LET valid_ids == ValidIds(search_similar_images(upload.feat, img_thread.items, TopK))
       IN  img_thread' = IF valid_ids = <<>>
                         THEN [img_thread EXCEPT !.pc = "done", !.result = "EmptyResult"]
                         ELSE [img_thread EXCEPT !.pc = "rows", !.valid_ids = valid_ids]
    /\ UNCHANGED <<geoVars, imgVars, searchVars, buildVars, memberVars, geo_thread, add_thread,
                   reg_thread>>

\* df_p and the cards: attraction_df is read a second time
img_rows ==
    /\ img_thread.pc = "rows"
    /\ img_thread' = [img_thread EXCEPT !.pc = "done", !.result = "ImageResults",
                        !.cards = CardsFor(img_thread.valid_ids, Len(img_thread.valid_ids))]
    /\ UNCHANGED <<geoVars, imgVars, searchVars, buildVars, memberVars, geo_thread, add_thread,
                   reg_thread>>

-----------------------------------------------------------------------------
(* Inputs: the data files and the values a browser can send *)

\* sequences over S of length at most n
RECURSIVE BSeq(_, _)
BSeq(S, n) == IF n = 0 THEN {<<>>} ELSE BSeq(S, n - 1) \cup [1..n -> S]

TableRow(id, name, lat, lon, city) ==
    [id |-> id, name |-> name, Lat |-> lat, Lon |-> lon, City |-> city]

AttractionPool ==
    { TableRow(1, Str(<<"a", "b">>), RawNum(0), RawNum(0), "X"),
      TableRow(2, Str(<<"B">>), RawNum(0), RawNum(30), "Y"),
      TableRow(3, Str(<<"A">>), RawNumStr(30), RawNumStr(0), "X"),
      TableRow(4, Str(<<"b">>), RawNone, RawText, "X") }

HotelPool ==
    { TableRow(5, Str(<<"B", "a">>), RawNum(0), RawNum(60), "Y"),
      TableRow(6, Str(<<"a">>), RawInf, RawNum(0), "X") }

RestaurantPool == { TableRow(7, NameNaN, RawNum(0), RawNum(0), "X") }

EventPool == { TableRow(8, Str(<<"c">>), RawNum(120), RawNum(0), "Y") }

\* the attractions of the image search page: two ids of the index, one name
ImageAttractionPool ==
    { TableRow(1, Str(<<"a", "b">>), RawNum(0), RawNum(0), "X"),
      TableRow(2, Str(<<"B">>), RawNum(0), RawNum(30), "Y") }

Keys == { <<>>, <<"a">>, <<"c">>, <<".">>, <<"(">> }

Radii == { -1, 0, 3400, 7000 }

CatChoices ==
    { {}, {"attractions"},
      {"attractions", "hotels", "restaurants"},
      {"attractions", "hotels", "restaurants", "events"},
      {"other"} }

Cities == { "None", "X", "Y" }

Requests ==
    [mode : {"keyword"}, city : {"None"}, key : Keys, rad : Radii, cats : CatChoices]
    \cup [mode : {"city"}, city : Cities, key : {<<>>}, rad : {5}, cats : CatChoices]

\* what a browser can upload
Uploads ==
    { NoUpload,
      [kind |-> "image", feat |-> <<3, 4>>],
      [kind |-> "image", feat |-> <<4, 3>>],
      [kind |-> "undecodable", feat |-> <<0, 0>>],
      [kind |-> "nocomma", feat |-> <<0, 0>>] }

IndexEntry(id, vec) == [id |-> id, vec |-> vec]

IndexPool ==
    { IndexEntry(1, <<3, 4>>), IndexEntry(2, <<8, 6>>), IndexEntry(9, <<0, 5>>) }

MissingIndex == [ok |-> FALSE, items |-> <<>>]

\* the index files: none, or a dict with distinct keys
IndexChoices ==
    {MissingIndex}
    \cup { [ok |-> TRUE, items |-> s] : s \in
             { t \in BSeq(IndexPool, MaxIndex) :
                 \A i, j \in 1..Len(t) : i # j => t[i].id # t[j].id } }

\* attraction rows with the column IsAccessibleForFree as the JSON gives it
FreeAttractionPool ==
    { [id |-> 1, name |-> Str(<<"a", "b">>), Lat |-> RawNum(0), Lon |-> RawNum(0),
       City |-> "X", IsAccessibleForFree |-> "NaN"],
      [id |-> 2, name |-> Str(<<"B">>), Lat |-> RawNum(0), Lon |-> RawNum(30),
       City |-> "Y", IsAccessibleForFree |-> "True"] }

\* the buttons a session can click: an attraction of the tables, and an
\* identifier no table holds
ClickItems ==
    { [item_id |-> 1, category |-> "Attraction"],
      [item_id |-> 9, category |-> "Attraction"] }

\* an empty database and a page on which no member callback has fired
NoMember ==
    /\ favorites = <<>>
    /\ cart_items = <<>>
    /\ itineraries = {}
    /\ itinerary_details = {}
    /\ next_itinerary_id = 1
    /\ next_detail_id = 1
    /\ login_warning = FALSE
    /\ cards_out = NoCards
    /\ users = <<>>
    /\ reply = [route |-> "none"]

\* no index builder has run
NoBuild == ref_images = <<>> /\ build_out = "notrun"

\* the image stores and components as the layout creates them
InitImageStores ==
    /\ upload = NoUpload
    /\ view_mode = "default"
    /\ image_results = NoneResults
    /\ banner = [text |-> "none", style |-> "hidden"]
    /\ result_attraction = <<>>
    /\ modal_open = FALSE
    /\ search_calls = 0
    /\ error_reports = 0

\* one update_map request on any data set
Init ==
    /\ attraction_df \in BSeq(AttractionPool, MaxRows)
    /\ hotel_df \in BSeq(HotelPool, MaxHotelRows)
    /\ restaurant_df \in ({<<>>} \cup {<<r>> : r \in RestaurantPool})
    /\ event_df \in ({<<>>} \cup {<<r>> : r \in EventPool})
    /\ req \in Requests
    /\ pc = "call"
    /\ out = NotRun
    /\ feature_db = MissingIndex
    /\ InitImageStores
    /\ NoSearchCall
    /\ NoBuild
    /\ NoMember
    /\ NoThreads

Next == update_map

Spec == Init /\ [][Next]_vars

InitialRequest ==
    [mode |-> "city", city |-> "None", key |-> <<>>, rad |-> 5,
     cats |-> {"attractions", "hotels", "restaurants"}]

\* the attraction page on any attraction table and index file
InitImage ==
    /\ attraction_df \in BSeq(ImageAttractionPool, MaxRows)
    /\ hotel_df = <<>>
    /\ restaurant_df = <<>>
    /\ event_df = <<>>
    /\ req = InitialRequest
    /\ pc = "call"
    /\ out = NotRun
    /\ feature_db \in IndexChoices
    /\ InitImageStores
    /\ NoSearchCall
    /\ NoBuild
    /\ NoMember
    /\ NoThreads

NextImage ==
    \/ \E c \in Uploads : set_upload(c)
    \/ run_image_search
    \/ back_to_normal_logic
    \/ toggle_image_search_modal

SpecImage == InitImage /\ [][NextImage]_vars

\* one direct call of search_similar_images on any index file and query
InitSearch ==
    /\ attraction_df = <<>>
    /\ hotel_df = <<>>
    /\ restaurant_df = <<>>
    /\ event_df = <<>>
    /\ req = InitialRequest
    /\ pc = "call"
    /\ out = NotRun
    \* index entries of a direct call: the vectors have integer norms, so
    \* that the fixed-point normalization is exact; entries 1 and 2 have one
    \* direction; the file is missing, or a dict with distinct keys
    /\ LET SearchIndexPool ==
               { IndexEntry(1, <<3, 4>>), IndexEntry(2, <<6, 8>>), IndexEntry(3, <<4, 3>>),
                 IndexEntry(4, <<0, 5>>), IndexEntry(5, <<5, 0>>) }
       IN  feature_db \in {MissingIndex}
              \cup { [ok |-> TRUE, items |-> t] : t \in
                       { t \in BSeq(SearchIndexPool, MaxSearchIndex) :
                           \A i, j \in 1..Len(t) : i # j => t[i].id # t[j].id } }
    /\ InitImageStores
    /\ query \in [feat : {<<3, 4>>, <<4, 3>>, <<0, 5>>}, top_k : 1..MaxK]
    /\ search_out = NotSearched
    /\ NoBuild
    /\ NoMember
    /\ NoThreads

NextSearch == SearchSimilarImagesCall

SpecSearch == InitSearch /\ [][NextSearch]_vars

\* an index builder runs on any set of reference images, and the index file
\* it leaves is searched
InitBuild ==
    /\ attraction_df = <<>>
    /\ hotel_df = <<>>
    /\ restaurant_df = <<>>
    /\ event_df = <<>>
    /\ req = InitialRequest
    /\ pc = "call"
    /\ out = NotRun
    /\ feature_db = MissingIndex
    /\ InitImageStores
    /\ query \in [feat : {<<3, 4>>, <<4, 3>>, <<0, 5>>}, top_k : 1..MaxK]
    /\ search_out = NotSearched
    \* reference images: one whose feature has norm 2, two of norm 1 (one
    \* under an identifier already used), one that cannot be opened
    /\ ref_images \in BSeq({ [id |-> 1, feat |-> <<6, 8>>, ok |-> TRUE],
                             [id |-> 2, feat |-> <<3, 4>>, ok |-> TRUE],
                             [id |-> 1, feat |-> <<4, 3>>, ok |-> TRUE],
                             [id |-> 3, feat |-> <<0, 10>>, ok |-> FALSE] }, MaxRefImages)
    /\ build_out = "notrun"
    /\ NoMember
    /\ NoThreads

NextBuild ==
    \/ generate_npy_index
    \/ run_all
    \/ build_attraction_image_index
    \/ SearchSimilarImagesCall

SpecBuild == InitBuild /\ [][NextBuild]_vars

\* a loaded index of two entries
LoadedIndex ==
    [ok |-> TRUE, items |-> <<IndexEntry(1, <<3, 4>>), IndexEntry(9, <<0, 5>>)>>]

\* the request-time operations on the shared tables and the index
InitRequests ==
    /\ attraction_df \in BSeq(FreeAttractionPool, MaxRows)
    /\ hotel_df \in BSeq(HotelPool, MaxHotelRows)
    /\ restaurant_df = <<>>
    /\ event_df = <<>>
    /\ req = InitialRequest
    /\ pc = "call"
    /\ out = NotRun
    /\ feature_db \in {MissingIndex, LoadedIndex}
    /\ InitImageStores
    /\ query = [feat |-> <<3, 4>>, top_k |-> 1]
    /\ search_out = NotSearched
    /\ NoBuild
    /\ NoMember
    /\ NoThreads

NextRequests ==
    \/ update_map
    \/ \E c \in {NoUpload, [kind |-> "image", feat |-> <<3, 4>>]} : set_upload(c)
    \/ run_image_search
    \/ SearchSimilarImagesCall
    \/ \E city \in {"None", "X"}, page_input \in {0, 1, 3},
          trigger \in {"btn-prev-att", "btn-next-att", "input-page-att", "other"} :
          update_attraction_cards(city, trigger, page_input)
    \/ \E u \in {Anonymous, 1}, b \in ClickItems : toggle_favorite(u, b.item_id, b.category)
    \/ \E u \in {Anonymous, 1}, real \in BOOLEAN, b \in ClickItems :
          add_to_cart_global(u, real, b.item_id, b.category)

SpecRequests == InitRequests /\ [][NextRequests]_vars

\* the JSON items a client posts to save_all_schedule: an item per detail
\* id up to n, an item with a day_number that is no number, and an item
\* with an id that is no number
ScheduleItems(n) ==
    LET ScheduleItem(id, day_number) ==
            [id |-> id, day_number |-> day_number, sort_order |-> RawNum(1),
             start_time |-> "09:00", end_time |-> "11:30"]
    IN  {ScheduleItem(RawNumStr(i), RawNum(1)) : i \in 1..n}
        \cup {ScheduleItem(RawNum(1), RawText), ScheduleItem(RawText, RawNum(1))}

\* the member pages: two accounts with a plan each, one attraction to pick
InitMember ==
    /\ attraction_df = <<TableRow(1, Str(<<"a">>), RawNum(0), RawNum(0), "X"),
                         TableRow(2, Str(<<"B">>), RawNum(0), RawNum(30), "Y")>>
    /\ hotel_df = <<>>
    /\ restaurant_df = <<>>
    /\ event_df = <<>>
    /\ req = InitialRequest
    /\ pc = "call"
    /\ out = NotRun
    /\ feature_db = MissingIndex
    /\ InitImageStores
    /\ NoSearchCall
    /\ NoBuild
    /\ favorites = <<>>
    /\ cart_items = <<>>
    /\ itineraries = {[id |-> u, user_id |-> u, title |-> "A"] : u \in Users}
    /\ itinerary_details = {}
    /\ next_itinerary_id = 3
    /\ next_detail_id = 1
    /\ login_warning = FALSE
    /\ cards_out = NoCards
    /\ users = <<[id |-> 1, username |-> "u1", email |-> "m1"],
                 [id |-> 2, username |-> "u2", email |-> "m2"]>>
    /\ reply = [route |-> "none"]
    /\ NoThreads

NextMember ==
    \/ \E u \in {Anonymous, 1}, b \in ClickItems : toggle_favorite(u, b.item_id, b.category)
    \/ \E u \in Sessions, real \in BOOLEAN, b \in ClickItems :
          add_to_cart_global(u, real, b.item_id, b.category)
    \/ \E u \in Sessions, real \in BOOLEAN : add_to_itinerary(u, real)
    \/ \E u \in Sessions, real \in BOOLEAN, b \in ClickItems :
          delete_cart_item(u, real, b.item_id)
    \/ \E u \in Sessions, plan_id \in 0..3 : save_to_plan(u, plan_id)
    \/ \E u \in Sessions, items \in BSeq(ScheduleItems(MaxDetails), MaxItems) :
          save_all_schedule(u, items)
    \/ \E u \in Sessions, id \in 1..3, title \in {" B", " "} :
          rename_itinerary(u, id, title)
    \/ \E u \in Sessions, id \in 1..3 : delete_itinerary(u, id)
    \/ \E u \in Sessions, id \in 1..(MaxDetails + 1) : delete_itinerary_detail(u, id)

SpecMember == InitMember /\ [][NextMember]_vars

\* the basket of two users over two attractions: user 1 clicks through two
\* workers whose steps interleave, user 2 clicks one request at a time
NextCart ==
    \/ \E t \in DOMAIN add_thread, item_id \in {1, 2} :
          add_to_cart_query(t, 1, item_id, "Attraction")
    \/ \E t \in DOMAIN add_thread : add_to_cart_commit(t)
    \/ \E real \in BOOLEAN : add_to_cart_global(2, real, 1, "Attraction")
    \/ \E u \in Sessions, item_id \in {1, 2} : delete_cart_item(u, TRUE, item_id)
    \/ \E u \in Sessions, plan_id \in 0..3 : save_to_plan(u, plan_id)

SpecCart == InitMember /\ [][NextCart]_vars

\* the schedule pages: the users fill their plans from the basket and post
\* schedules of up to MaxListed items
NextSchedule ==
    \/ \E u \in Users : add_to_cart_global(u, TRUE, 1, "Attraction")
    \/ \E u \in Users : save_to_plan(u, u)
    \/ \E u \in Sessions, items \in BSeq(ScheduleItems(MaxDetails + 1), MaxListed) :
          save_all_schedule(u, items)
    \/ \E u \in Users, id \in 1..MaxDetails : delete_itinerary_detail(u, id)

SpecSchedule == InitMember /\ [][NextSchedule]_vars

\* the heart buttons: every session clicks the buttons of the two
\* attractions, the button 9, and a button whose category is not the
\* table of its item
NextFavorites ==
    \/ \E u \in Sessions, item_id \in {1, 2, 9} : toggle_favorite(u, item_id, "Attraction")
    \/ \E u \in Sessions : toggle_favorite(u, 1, "Hotel")

SpecFavorites == InitMember /\ [][NextFavorites]_vars

\* the registration page: two workers serve POSTs whose fields are taken,
\* free or missing
NextRegister ==
    \/ \E t \in DOMAIN reg_thread, username \in {"u1", "u3", "u4", "None"},
          email \in {"m1", "m3", "m4", "None"}, password \in {"p", "None"} :
          register_query(t, username, email, password)
    \/ \E t \in DOMAIN reg_thread : register_commit(t)

SpecRegister == InitMember /\ [][NextRegister]_vars

\* the attraction page on a table of three pages (two of them in city X),
\* with an index whose one match is attraction 1
InitPages ==
    /\ attraction_df = [i \in 1..(2 * PerPage + 1) |->
           [id |-> i, name |-> Str(<<"a">>), Lat |-> RawNum(0), Lon |-> RawNum(0),
            City |-> IF i <= PerPage + 1 THEN "X" ELSE "Y", IsAccessibleForFree |-> "True"]]
    /\ hotel_df = <<>>
    /\ restaurant_df = <<>>
    /\ event_df = <<>>
    /\ req = InitialRequest
    /\ pc = "call"
    /\ out = NotRun
    /\ feature_db = LoadedIndex
    /\ InitImageStores
    /\ NoSearchCall
    /\ NoBuild
    /\ NoMember
    /\ NoThreads

\* the callbacks of the page: update_attraction_cards is called with the
\* values the components have; a filter change passes the new city, a typed
\* page number passes the number (0 for an emptied field)
NextPages ==
    \/ \E c \in {NoUpload, [kind |-> "image", feat |-> <<3, 4>>]} : set_upload(c)
    \/ run_image_search
    \/ back_to_normal_logic
    \/ \E city \in {"None", "X", "Y"} :
          update_attraction_cards(city, "planner-att-city", cards_out.page)
    \/ \E trigger \in {"btn-prev-att", "btn-next-att"} :
          update_attraction_cards(cards_out.city, trigger, cards_out.page)
    \/ \E page_input \in 0..4 :
          update_attraction_cards(cards_out.city, "input-page-att", page_input)

SpecPages == InitPages /\ [][NextPages]_vars

\* one map search and one image search in flight, and the attraction page
\* refreshing its cards
InitConcurrent ==
    /\ attraction_df \in BSeq(FreeAttractionPool, MaxRows)
    /\ hotel_df \in ({<<>>} \cup {<<r>> : r \in HotelPool})
    /\ restaurant_df = <<>>
    /\ event_df \in ({<<>>} \cup {<<r>> : r \in EventPool})
    /\ req \in
        { [mode |-> "keyword", city |-> "None", key |-> <<"a">>, rad |-> 3400,
           cats |-> {"attractions", "hotels"}],
          [mode |-> "city", city |-> "X", key |-> <<>>, rad |-> 5,
           cats |-> {"attractions", "hotels", "restaurants", "events"}],
          [mode |-> "city", city |-> "None", key |-> <<>>, rad |-> 5, cats |-> {}] }
    /\ pc = "call"
    /\ out = NotRun
    /\ feature_db \in {MissingIndex, LoadedIndex}
    /\ upload \in {NoUpload, [kind |-> "image", feat |-> <<3, 4>>],
                    [kind |-> "undecodable", feat |-> <<0, 0>>]}
    /\ view_mode = "default"
    /\ image_results = NoneResults
    /\ banner = [text |-> "none", style |-> "hidden"]
    /\ result_attraction = <<>>
    /\ modal_open = FALSE
    /\ search_calls = 0
    /\ error_reports = 0
    /\ NoSearchCall
    /\ NoBuild
    /\ NoMember
    /\ NoThreads

NextConcurrent ==
    \/ geo_start
    \/ geo_read
    \/ geo_compute
    \/ img_start
    \/ img_load
    \/ img_ids
    \/ img_rows
    \/ update_attraction_cards("None", "other", 0)

SpecConcurrent == InitConcurrent /\ [][NextConcurrent]_vars

-----------------------------------------------------------------------------
(* Properties of update_map *)

Done == pc = "done"

\* a keyword search that reaches the keyword branch
KeywordSearch ==
    /\ Done
    /\ req.mode = "keyword"
    /\ req.key # <<>>
    /\ req.cats \cap KnownCats # {}

\* the candidates of the request: the rows of the selected tables, in input
\* order, with their coordinates as numbers
Candidates == CoerceTable(ConcatSelected(req.cats))

ValidCoords(row) == IsFinite(row.Lat) /\ IsFinite(row.Lon)

\* the keyword resolves an anchor: the pattern compiles and a named
\* candidate with coordinates matches it
AnchorResolved ==
    /\ KeywordSearch
    /\ ~RegexInvalid(req.key)
    /\ Target(FullDf(req.cats), req.key) # <<>>

Anchor == Target(FullDf(req.cats), req.key)[1]

\* the keyword is made of letters only
PlainKey == \A i \in 1..Len(req.key) : req.key[i] \notin {".", "(", ")"}

\* a keyword of letters resolves an anchor
PlainAnchor == AnchorResolved /\ PlainKey

\* distance of a candidate from the anchor
DistFromAnchor(row) == calculate_distance(Anchor.Lat, Anchor.Lon, row.Lat, row.Lon)

\* C1: a keyword search never returns a record whose haversine distance
\* from the anchor exceeds the radius.
C1_WithinRadius ==
    (AnchorResolved /\ out.status = "returned") =>
        \A i \in 1..Len(out.rows) :
            LET d == DistFromAnchor(out.rows[i])
            IN  /\ d.k = "num"
                /\ d.v <= req.rad
                /\ out.rows[i].Dist = d

\* C1 witness: a search that returned some records and left out a candidate
\* that lies beyond the radius
C1_Witness ==
    /\ PlainAnchor
    /\ out.status = "returned"
    /\ out.rows # <<>>
    /\ \E i \in 1..Len(Candidates) :
          /\ ValidCoords(Candidates[i])
          /\ DistFromAnchor(Candidates[i]).k = "num"
          /\ DistFromAnchor(Candidates[i]).v > req.rad

\* the indices of the candidates that have valid coordinates and lie within
\* the radius of the anchor
ExpectedIdx ==
    { i \in 1..Len(Candidates) :
        /\ ValidCoords(Candidates[i])
        /\ DistFromAnchor(Candidates[i]).k = "num"
        /\ DistFromAnchor(Candidates[i]).v <= req.rad }

Annotated(row) == [row EXCEPT !.Dist = DistFromAnchor(row)]

\* C2: a keyword search returns exactly the candidates with valid
\* coordinates within the radius of the anchor, each annotated with its
\* distance, and nothing else.
C2_ExactSubset ==
    PlainAnchor =>
        /\ out.status = "returned"
        /\ \A i \in ExpectedIdx :
              Cardinality({j \in 1..Len(out.rows) : out.rows[j] = Annotated(Candidates[i])})
                = Cardinality({j \in ExpectedIdx : Candidates[j] = Candidates[i]})
        /\ \A j \in 1..Len(out.rows) :
              \E i \in ExpectedIdx : out.rows[j] = Annotated(Candidates[i])

\* C3: the returned records are in non-decreasing order of distance.
C3_SortedByDistance ==
    (PlainAnchor /\ out.status = "returned") =>
        \A i \in 1..(Len(out.rows) - 1) :
            out.rows[i].Dist.v <= out.rows[i + 1].Dist.v

RowKey(row) == <<row.Type, row.ID>>

KeysOf(rows) == [i \in 1..Len(rows) |-> RowKey(rows[i])]

\* the returned records at distance d, in result order
TieClass(d) == SelectSeq(out.rows, LAMBDA row : row.Dist = d)

\* C4: returned records with equal distance keep their relative order from
\* the input candidate sequence.
C4_TiesKeepInputOrder ==
    (AnchorResolved /\ out.status = "returned") =>
        \A n \in 1..Len(out.rows) :
            LET tie == KeysOf(TieClass(out.rows[n].Dist))
            IN  tie = SelectSeq(KeysOf(ConcatSelected(req.cats)),
                                LAMBDA k : \E m \in 1..Len(tie) : tie[m] = k)

\* C4 witness: a result with two different records at the same distance
C4_Witness ==
    /\ PlainAnchor
    /\ out.status = "returned"
    /\ \E i, j \in 1..Len(out.rows) :
          /\ i < j
          /\ out.rows[i].Dist = out.rows[j].Dist
          /\ RowKey(out.rows[i]) # RowKey(out.rows[j])

\* C5: a record whose latitude or longitude is missing, non-numeric or
\* non-finite never appears in a result, never is the anchor, and never
\* makes the search fail.
C5_InvalidCoordsDropped ==
    (Done /\ PlainKey) =>
        /\ out.exc # "ValueError"
        /\ \A i \in 1..Len(out.rows) : ValidCoords(out.rows[i])
        /\ (out.status = "returned" /\ out.fig = "scatter" /\ req.mode = "keyword") =>
              (IsFinite(out.center_lat) /\ IsFinite(out.center_lon))

\* case-insensitive substring test: key occurs in s
ContainsIgnoreCase(s, key) ==
    \E off \in 0..(Len(s) - Len(key)) :
        \A i \in 1..Len(key) : LowerChar(key[i]) = LowerChar(s[off + i])

\* the candidates with coordinates whose name contains the keyword
SubstringMatches ==
    SelectSeq(FullDf(req.cats),
              LAMBDA row : ~row.Name.na /\ ContainsIgnoreCase(row.Name.s, req.key))

EmptyResult ==
    /\ out.status = "returned"
    /\ out.fig = "default"
    /\ out.rows = <<>>
    /\ out.msg \in {"NoMatch", "NoData"}

\* C6: with some category selected, a search over an empty candidate set, a
\* search whose radius holds no candidate, and a keyword that no name
\* contains all end normally with the empty result.
C6_EmptyIsNotAnError ==
    (Done /\ req.cats # {}) =>
        /\ Candidates = <<>> => EmptyResult
        /\ (KeywordSearch /\ SubstringMatches = <<>>) => EmptyResult
        /\ (AnchorResolved /\ ExpectedIdx = {}) => EmptyResult

\* no candidate of the request has an infinite coordinate
NoInfiniteCoords ==
    \A i \in 1..Len(Candidates) :
        ~IsInfinite(Candidates[i].Lat) /\ ~IsInfinite(Candidates[i].Lon)

\* C7: the anchor of a keyword search is the first candidate, in data set
\* order, whose name contains the keyword as a case-insensitive substring;
\* when no name contains it there is no anchor and the result is empty.
C7_AnchorBySubstring ==
    (KeywordSearch /\ NoInfiniteCoords) =>
        IF SubstringMatches = <<>> THEN EmptyResult
        ELSE /\ out.status = "returned"
             /\ req.rad >= 0 =>
                   /\ out.center_lat = SubstringMatches[1].Lat
                   /\ out.center_lon = SubstringMatches[1].Lon

\* C8: for a radius >= 0 every candidate at the search centre, the anchor
\* included, is returned with distance 0.
C8_CentreReturned ==
    (PlainAnchor /\ req.rad >= 0) =>
        /\ out.status = "returned"
        /\ \A i \in 1..Len(Candidates) :
              (Candidates[i].Lat = Anchor.Lat /\ Candidates[i].Lon = Anchor.Lon) =>
                  \E j \in 1..Len(out.rows) :
                      /\ RowKey(out.rows[j]) = RowKey(Candidates[i])
                      /\ out.rows[j].Dist = Num(0)

\* an out-of-range centre: latitude outside -90..90 or longitude outside
\* -180..180
OutOfRange(lat, lon) ==
    \/ (IsFinite(lat) /\ (lat.v < -90 \/ lat.v > 90))
    \/ (IsFinite(lon) /\ (lon.v < -180 \/ lon.v > 180))

\* the search was evaluated like any other: a map of the records found, or
\* the ordinary no-match answer
OrdinaryAnswer == out.status = "returned" /\ out.msg \in {"Shown", "NoMatch"}

\* C9: a search with a non-positive radius or an out-of-range centre is
\* rejected, not evaluated as an ordinary search.
C9_InvalidInputRejected ==
    (PlainAnchor /\ NoInfiniteCoords
        /\ (req.rad <= 0 \/ OutOfRange(Anchor.Lat, Anchor.Lon)))
    => ~OrdinaryAnswer

-----------------------------------------------------------------------------
(* Properties of run_image_search *)

\* the uploaded contents are there but do not decode to an image
Undecodable == upload.kind # "None" /\ ~Decodes(upload)

\* C10: when the uploaded image cannot be decoded, run_image_search reports
\* one error, does not call search_similar_images, sets image-search-results
\* to None and leaves the attraction view mode as it was.
C10_UndecodableReported ==
    [][(run_image_search /\ Undecodable) =>
          /\ error_reports' = 1
          /\ banner'.text = "SearchError"
          /\ search_calls' = 0
          /\ image_results' = NoneResults
          /\ view_mode' = view_mode]_vars

\* C10 witness: the page after a failed decode while it showed image
\* results: still in image mode, the result ids gone, one error reported
C10_Witness ==
    /\ Undecodable
    /\ view_mode = "image"
    /\ image_results = NoneResults
    /\ banner = [text |-> "SearchError", style |-> "red"]
    /\ error_reports = 1
    /\ search_calls = 0

-----------------------------------------------------------------------------
(* Properties of a direct search_similar_images call (SpecSearch) *)

SearchReturned == search_out.status = "returned"

IndexSize == Len(feature_db.items)

Min(a, b) == IF a < b THEN a ELSE b

\* C11: for every index and every top_k >= 1 the call returns exactly
\* min(top_k, index size) entries.
C11_ReturnsMinKSize ==
    SearchReturned => Len(search_out.results) = Min(query.top_k, IndexSize)

\* both cases: an index larger than top_k, and one smaller than top_k
C11_Witness ==
    /\ SearchReturned
    /\ IndexSize > query.top_k
    /\ Len(search_out.results) = query.top_k

\* the other case: an index of fewer entries than top_k is returned whole
C11_WitnessSmallIndex ==
    /\ SearchReturned
    /\ IndexSize >= 1
    /\ IndexSize < query.top_k
    /\ Len(search_out.results) = IndexSize

\* position of the entry with identifier id in the index iteration order
PosInIndex(id) == CHOOSE p \in 1..IndexSize : feature_db.items[p].id = id

\* cosine similarity of the query and the stored vector at position p
ScoreAt(p) == Dot(Normalize(query.feat), Normalize(feature_db.items[p].vec))

ReturnedIds == {search_out.results[i].index : i \in 1..Len(search_out.results)}

\* C12: the returned entries are in descending score order, each is an index
\* entry with its own score, no index entry left out scores higher than a
\* returned one, and entries of equal score keep the index iteration order
\* (a left-out entry that ties with a returned one comes later in the index).
C12_DescendingTopKStable ==
    SearchReturned =>
        LET res == search_out.results IN
        /\ \A i \in 1..Len(res) :
              /\ \E p \in 1..IndexSize : feature_db.items[p].id = res[i].index
              /\ res[i].score = ScoreAt(PosInIndex(res[i].index))
        /\ \A i, j \in 1..Len(res) :
              i < j => /\ res[i].index # res[j].index
                       /\ res[i].score >= res[j].score
                       /\ (res[i].score = res[j].score
                             => PosInIndex(res[i].index) < PosInIndex(res[j].index))
        /\ \A p \in 1..IndexSize :
              feature_db.items[p].id \notin ReturnedIds =>
                  \A i \in 1..Len(res) :
                      /\ ScoreAt(p) <= res[i].score
                      /\ (ScoreAt(p) = res[i].score => PosInIndex(res[i].index) < p)

\* two returned entries tie, they are not adjacent in the index, and an entry
\* is left out
C12_Witness ==
    /\ SearchReturned
    /\ Len(search_out.results) < IndexSize
    /\ \E i, j \in 1..Len(search_out.results) :
          /\ i < j
          /\ search_out.results[i].score = search_out.results[j].score
          /\ PosInIndex(search_out.results[j].index) > PosInIndex(search_out.results[i].index) + 1

\* the index with the vector at position p multiplied by c
ScaledAt(items, p, c) ==
    [items EXCEPT ![p].vec = <<c * items[p].vec[1], c * items[p].vec[2]>>]

\* C13: both sides are normalized when they are compared: multiplying any
\* stored vector by a positive constant changes no score and no rank of the
\* answer.
C13_ScaleInvariant ==
    SearchReturned =>
        \A p \in 1..IndexSize : \A c \in 1..MaxFactor :
            search_similar_images(query.feat, ScaledAt(feature_db.items, p, c), query.top_k)
                = search_out.results

\* the index holds a vector and a multiple of it, and both are returned with
\* one score
C13_Witness ==
    /\ SearchReturned
    /\ \E i, j \in 1..Len(search_out.results) :
          LET a == feature_db.items[PosInIndex(search_out.results[i].index)].vec
              b == feature_db.items[PosInIndex(search_out.results[j].index)].vec
          IN  /\ i # j
              /\ b = <<2 * a[1], 2 * a[2]>>
              /\ search_out.results[i].score = search_out.results[j].score

\* a and b point in one direction
SameDirection(a, b) == a[1] * b[2] = a[2] * b[1] /\ a[1] * b[1] + a[2] * b[2] > 0

\* the query feature equals the stored vector at p and no other entry has
\* that direction
QueryIsEntry(p) ==
    /\ feature_db.items[p].vec = query.feat
    /\ \A o \in 1..IndexSize :
          o # p => ~SameDirection(feature_db.items[o].vec, query.feat)

\* C14: a query whose feature equals a stored vector returns that entry
\* first, with score 1, when no other entry has the same direction.
C14_SelfMatchFirst ==
    SearchReturned =>
        \A p \in 1..IndexSize :
            QueryIsEntry(p) =>
                /\ search_out.results[1].index = feature_db.items[p].id
                /\ search_out.results[1].score = Scale
                /\ \A i \in 2..Len(search_out.results) : search_out.results[i].score < Scale

\* the scenario of three entries, the query equal to the second, top_k = 2
C14_Witness ==
    /\ SearchReturned
    /\ IndexSize = 3
    /\ query.top_k = 2
    /\ QueryIsEntry(2)
    /\ search_out.results[1].index = feature_db.items[2].id

\* C15: when the index file is missing or does not parse, the call raises
\* to its caller after one load attempt, without extracting a feature and
\* without a result list.
C15_LoadFailureRaises ==
    (search_out.status # "notrun" /\ ~feature_db.ok) =>
        /\ search_out.status = "raised"
        /\ search_out.loads = 1
        /\ search_out.extracts = 0
        /\ search_out.results = <<>>

C15_Witness == search_out.status = "raised" /\ ~feature_db.ok

-----------------------------------------------------------------------------
(* Properties of the offline index builders (SpecBuild) *)

\* the float vector v has L2 norm 1
IsUnit(v) == v[1] * v[1] + v[2] * v[2] = Unit * Unit

RefIds == {ref_images[i].id : i \in 1..Len(ref_images)}

\* C16: after any index builder has run, the index file holds a mapping from
\* reference-image identifiers to L2-normalized vectors.
C16_BuildersPersistNormalized ==
    build_out # "notrun" =>
        /\ feature_db.ok
        /\ \A p \in 1..Len(feature_db.items) :
              /\ feature_db.items[p].id \in RefIds
              /\ IsUnit(feature_db.items[p].vec)

-----------------------------------------------------------------------------
(* Properties of the request-time operations (SpecRequests) *)

\* C17: no request-time operation changes a value of the four POI tables or
\* of the embedding index.
C17_TablesAndIndexReadOnly ==
    [][/\ attraction_df' = attraction_df
       /\ hotel_df' = hotel_df
       /\ restaurant_df' = restaurant_df
       /\ event_df' = event_df
       /\ feature_db' = feature_db]_vars

-----------------------------------------------------------------------------
(* Properties of concurrent searches (SpecConcurrent) *)

\* what run_image_search returns when it runs alone: its banner text and the
\* ids of its cards
ImageAnswerAlone ==
    IF upload.kind = "None" THEN [result |-> "PreventUpdate", cards |-> <<>>]
    ELSE IF ~Decodes(upload) \/ ~feature_db.ok THEN [result |-> "SearchError", cards |-> <<>>]
    ELSE LET valid_ids == ValidIds(search_similar_images(upload.feat, feature_db.items, TopK))
         IN  IF valid_ids = <<>> THEN [result |-> "EmptyResult", cards |-> <<>>]
             ELSE [result |-> "ImageResults", cards |-> CardsFor(valid_ids, Len(valid_ids))]

-----------------------------------------------------------------------------
(* Properties of the member operations (SpecMember) *)

\* a request of a session that is not logged in
AnonymousRequest ==
    \/ \E b \in ClickItems : toggle_favorite(Anonymous, b.item_id, b.category)
    \/ \E real \in BOOLEAN, b \in ClickItems :
          add_to_cart_global(Anonymous, real, b.item_id, b.category)
    \/ \E real \in BOOLEAN : add_to_itinerary(Anonymous, real)
    \/ \E real \in BOOLEAN, b \in ClickItems : delete_cart_item(Anonymous, real, b.item_id)
    \/ \E plan_id \in 0..3 : save_to_plan(Anonymous, plan_id)
    \/ \E items \in BSeq(ScheduleItems(MaxDetails), MaxItems) : save_all_schedule(Anonymous, items)
    \/ \E id \in 1..3 : delete_itinerary(Anonymous, id)
    \/ \E id \in 1..(MaxDetails + 1) : delete_itinerary_detail(Anonymous, id)

OthersPlans(u) == {p \in itineraries : p.user_id # u}

OthersDetails(u) ==
    {d \in itinerary_details : \E p \in OthersPlans(u) : p.id = d.itinerary_id}

\* a request of user u to one of the operations on itineraries
ItineraryRequest(u) ==
    \/ \E items \in BSeq(ScheduleItems(MaxDetails), MaxItems) : save_all_schedule(u, items)
    \/ \E id \in 1..3, title \in {" B", " "} : rename_itinerary(u, id, title)
    \/ \E id \in 1..3 : delete_itinerary(u, id)
    \/ \E id \in 1..(MaxDetails + 1) : delete_itinerary_detail(u, id)
    \/ \E plan_id \in 0..3 : save_to_plan(u, plan_id)

\* C20: a request of one user to save_all_schedule, rename_itinerary,
\* delete_itinerary, delete_itinerary_detail or save_to_plan (any plan_id)
\* leaves the itineraries of the other users, and the details in them, as
\* they were.
C20_OtherUsersItinerariesUntouched ==
    [][\A u \in Users :
          ItineraryRequest(u) => /\ OthersPlans(u)' = OthersPlans(u)
                                 /\ OthersDetails(u)' = OthersDetails(u)]_vars

\* the basket rows of user u, and what a CartItem and the ItineraryDetail
\* made of it have in common
CartOf(u) == SelectSeq(cart_items, LAMBDA r : r.user_id = u)

Carried(r) ==
    [item_id |-> r.item_id, name |-> r.name, category |-> r.category, location |-> r.location]

\* the step deleted every CartItem of u, left the other users' rows, and
\* added to the existing itinerary plan_id one detail per deleted item,
\* with the item's fields, day_number 0 and sort_order 0
WholeCartMoved(u, plan_id) ==
    LET added == itinerary_details' \ itinerary_details
    IN  /\ cart_items' = SelectSeq(cart_items, LAMBDA r : r.user_id # u)
        /\ itinerary_details \subseteq itinerary_details'
        /\ \E p \in itineraries' : p.id = plan_id
        /\ \A d \in added : d.itinerary_id = plan_id /\ d.day_number = 0 /\ d.sort_order = 0
        /\ Cardinality(added) = Len(CartOf(u))
        /\ \A i \in 1..Len(CartOf(u)) :
              Cardinality({d \in added : Carried(d) = Carried(CartOf(u)[i])}) =
              Cardinality({j \in 1..Len(CartOf(u)) :
                              Carried(CartOf(u)[j]) = Carried(CartOf(u)[i])})

\* C21: a save_to_plan request of a session either moves its whole basket
\* (every CartItem of the user deleted, exactly one ItineraryDetail per
\* deleted item added to the chosen itinerary with the same item_id, name,
\* category and location, day_number 0 and sort_order 0) or leaves the
\* basket and the itinerary details as they were.
C21_SaveToPlanAtomic ==
    [][\/ cart_items' = cart_items /\ itinerary_details' = itinerary_details
       \/ \A u \in Sessions, plan_id \in 0..3 :
             save_to_plan(u, plan_id) => WholeCartMoved(u, plan_id)]_vars

\* user 1's basket of two different items has become two details of
\* itinerary 1, and the row of user 2 is still in the basket
C21_Witness ==
    /\ CartOf(1) = <<>>
    /\ CartOf(2) # <<>>
    /\ \E d, e \in itinerary_details :
          /\ d.item_id = 1 /\ e.item_id = 2
          /\ d.itinerary_id = 1 /\ e.itinerary_id = 1
          /\ d.name = Str(<<"a">>) /\ e.name = Str(<<"B">>)

\* int(x) raises on the value x of a JSON item
NonInteger(c) == c.k \notin {"number", "numstr"}

\* the detail an item names, when it exists in an itinerary of user u
ListedDetail(u, item) ==
    {d \in itinerary_details : ~NonInteger(item.id) /\ d.id = item.id.v /\ OwnedDetail(u, d)}

\* the item makes the loop raise: its id is no integer, or it names a detail
\* of the user and its day_number or sort_order is no integer
Raising(u, item) ==
    \/ NonInteger(item.id)
    \/ ListedDetail(u, item) # {} /\ (NonInteger(item.day_number) \/ NonInteger(item.sort_order))

\* C22: a save_all_schedule request of a user is all-or-nothing: when no
\* item raises the response is success, every listed detail of an itinerary
\* of the user has the day_number, sort_order, start_time and end_time of
\* its item, and every other detail (not listed, not owned) is as it was,
\* the items that name no detail of the user being skipped; when any item
\* raises the response is an error with status 500 and no detail is changed.
C22_SaveAllScheduleAllOrNothing ==
    \A u \in Users, items \in BSeq(ScheduleItems(MaxDetails + 1), MaxListed) :
       LET answer == SaveAllSchedule(u, items)
           listed == UNION {ListedDetail(u, items[i]) : i \in 1..Len(items)}
       IN  IF \E i \in 1..Len(items) : Raising(u, items[i])
           THEN answer.status = "error500" /\ answer.details = itinerary_details
           ELSE /\ answer.status = "success"
                /\ itinerary_details \ listed \subseteq answer.details
                /\ Cardinality(answer.details) = Cardinality(itinerary_details)
                /\ \A i \in 1..Len(items) : \A d \in ListedDetail(u, items[i]) :
                      \E e \in answer.details :
                         /\ e.id = d.id /\ e.itinerary_id = d.itinerary_id
                         /\ e.day_number = items[i].day_number.v
                         /\ e.sort_order = items[i].sort_order.v
                         /\ e.start_time = items[i].start_time
                         /\ e.end_time = items[i].end_time

\* two details of an itinerary of user 1 have been scheduled with the times
\* of their items
C22_Witness ==
    Cardinality({d \in itinerary_details :
                    OwnedDetail(1, d) /\ d.day_number = 1 /\ d.start_time = "09:00"}) = 2

\* C23: every ItineraryDetail row references an existing Itinerary, after
\* any sequence of requests: delete_itinerary removes the details with the
\* itinerary, and save_to_plan attaches no detail to a missing itinerary.
C23_DetailsReferenceItinerary ==
    \A d \in itinerary_details : \E p \in itineraries : p.id = d.itinerary_id

\* an itinerary has been deleted after details were made, some detail went
\* away, and a detail of the other itinerary is still there
C23_Witness ==
    /\ \E u \in Users : \A p \in itineraries : p.id # u
    /\ Cardinality(itinerary_details) < next_detail_id - 1
    /\ itinerary_details # {}

\* C24: for each user and item_id the basket holds at most one CartItem,
\* after any sequence of add_to_cart_global, delete_cart_item and save_to_plan
\* requests, two add requests of one user for one item that interleave
\* included.
C24_OneCartItemPerUserAndItem ==
    \A u \in Users, item_id \in {1, 2} : Cardinality(RowsOf(cart_items, u, item_id)) <= 1

\* the item_ids of the favorites of user u in the table favs
FavIds(favs, u) == {favs[i].item_id : i \in {j \in 1..Len(favs) : favs[j].user_id = u}}

Emails(table) == {table[i].email : i \in 1..Len(table)}

\* C26: no two User rows share an email, in any state; a step that changes
\* the table users adds one row whose email no row had; and a registration
\* with an email that a row has leaves the table as it was and redirects to
\* /register.
C26_UniqueEmail ==
    [][/\ Cardinality(Emails(users)) = Len(users)
       /\ Cardinality(Emails(users')) = Len(users')
       /\ users' # users =>
             /\ Len(users') = Len(users) + 1
             /\ SubSeq(users', 1, Len(users)) = users
             /\ users'[Len(users')].email \notin Emails(users)
       /\ \A t \in DOMAIN reg_thread, username \in {"u1", "u3", "u4", "None"},
             email \in Emails(users), password \in {"p", "None"} :
             register_query(t, username, email, password) =>
                /\ users' = users
                /\ reply' = [route |-> "register", status |-> 302, location |-> "/register"]]_vars

\* two users have registered after the two of the start, and the last
\* registration was sent back to /register
C26_Witness ==
    /\ Len(users) = 4
    /\ reply = [route |-> "register", status |-> 302, location |-> "/register"]

\* C27: the page number update_attraction_cards returns lies between 1 and
\* the number of pages of the list it returns, after any sequence of filter
\* changes, clicks on previous and next, typed page numbers and switches of
\* the image-search mode.
C27_PageWithinPages ==
    cards_out.text # "none" => 1 <= cards_out.page /\ cards_out.page <= cards_out.pages

====
